---- MODULE Spec2Model ----
(***************************************************************************)
(* Incremental chunk / embed / index builder of AInalyst2                  *)
(* (src/incremental_chunk_embed.py) together with the two files it         *)
(* persists (faiss_index.idx, faiss_metadata.json) and the data/ corpus    *)
(* written by the downloader.                                              *)
(*                                                                         *)
(* One builder process at a time walks the corpus.  Its position is pc:    *)
(*   "idle"        no builder process is running                           *)
(*   "walk"        between two documents of the os.listdir loops           *)
(*   "chunks"      inside  for idx, chunk in enumerate(chunks)             *)
(*   "save_index"  save_index_metadata entered, nothing written yet        *)
(*   "save_meta"   faiss.write_index done, json.dump not yet done          *)
(*   "ended"       update_embeddings has returned or raised                *)
(* The process can be killed at any position (Kill); an embedder call can  *)
(* raise in any sub-batch.  In FairSpec the call of chunk_text is a        *)
(* position of its own, "chunking", between "walk" and "chunks".           *)
(*                                                                         *)
(* A text is represented by the document it belongs to and its number of   *)
(* tokens, a chunk by the token window [from, to) that was decoded, an     *)
(* embedding vector by the text it was computed from and its width.        *)
(*                                                                         *)
(* Six specifications:                                                     *)
(*   Spec           the builder, documents arriving under data/ and a      *)
(*                  change of the embedding model                          *)
(*   ChunkSpec      the while loops of the two chunk_text functions        *)
(*                  (incremental_chunk_embed.py, query_rag.py), run on the *)
(*                  same text and arguments                                *)
(*   RetrieveSpec   Spec with calls of the two retrieve functions between  *)
(*                  builder runs and with document files that go missing   *)
(*   ConcurrentSpec Spec with a second builder process opening the store   *)
(*                  and a retrieve call inside a persist                   *)
(*   DownloadSpec   download_filings.main for one ticker: the listing, the *)
(*                  files under data/<TICKER>/, runs and re-runs           *)
(*   FairSpec       the builder followed through the loop of chunk_text,   *)
(*                  with weak fairness of the running process              *)
(***************************************************************************)
EXTENDS Integers, Sequences, FiniteSets, TLC

\* ------------------------------------------------------------------ bounds
\* Number of documents the downloader can ever put under data/.
NumDocs == 2
\* MAX_CHUNKS_IN_MEMORY is read from the environment: values 0..MaxCeiling.
MaxCeiling == 3
\* SAVE_PROGRESS_EVERY is read from the environment: values 0..MaxInterval.
MaxInterval == 2
\* Number of times a builder process is killed.
MaxKills == 1
\* chunk_text is called on texts of 0..MaxTokens tokens,
MaxTokens == 5
\* with chunk_size in 1..MaxChunkSize and overlap in 0..MaxChunkSize.
MaxChunkSize == 3
\* retrieve is called with k in 1..MaxK.
MaxK == 2
NumFilings == 2
\* The embedder's maximum batch size, scaled down from the source's 100 so
\* that a staged batch can need more than one sub-batch.
BATCH_SIZE == 2

\* --------------------------------------------------------------- constants
CHUNK_SIZE == 1000
CHUNK_OVERLAP == 200
\* query_rag.py: "must match your embedder's config"
QUERY_CHUNK_SIZE == 1000
QUERY_CHUNK_OVERLAP == 200

\* ------------------------------------------------------------------ corpus
Docs == 1..NumDocs

\* data/<ticker>/<accession>.json : directory name of document d.
Ticker(d) == IF d % 2 = 1 THEN "AAPL" ELSE "MSFT"

\* record['accession'] of document d (the downloader names the file after it).
Accession(d) == (d + 1) \div 2

\* Number of tokens tokenizer.encode(record['text']) yields for document d.
TokenCount(d) == <<1800, 1000, 0, 2600>>[((d - 1) % 4) + 1]

\* record.get('text', '') of document d.
Text(d) == [doc |-> d, ntokens |-> TokenCount(d)]

Min(a, b) == IF a <= b THEN a ELSE b

\* ----------------------------------------------------------------- chunker
\* A chunk is the text decoded from a slice of the token list, written as the
\* window of token positions [from, to) it was decoded from.
\* tokens[a:b] of a list of n tokens: a negative bound counts from the end,
\* a bound outside the list is clamped.
SliceBound(a, n) == IF a < 0 THEN (IF n + a < 0 THEN 0 ELSE n + a)
                    ELSE Min(a, n)

\* tokenizer.decode(tokens[start:end])
DecodeSlice(text, start, end) ==
    LET lo == SliceBound(start, text.ntokens)
        hi == SliceBound(end, text.ntokens)
    IN  [doc |-> text.doc, from |-> lo, to |-> IF hi < lo THEN lo ELSE hi]

\* Variant: the window advances by chunk_size.
ChunkIterationNoOverlap(text, chunk_size, overlap, start, chunks) ==
    LET end == Min(start + chunk_size, text.ntokens)
    IN  [chunks |-> Append(chunks, DecodeSlice(text, start, end)),
         start  |-> IF end = text.ntokens THEN start ELSE start + chunk_size,
         break  |-> end = text.ntokens]

\* Variant: start is not moved on.
ChunkIterationNoAdvance(text, chunk_size, overlap, start, chunks) ==
    LET end == Min(start + chunk_size, text.ntokens)
    IN  [chunks |-> Append(chunks, DecodeSlice(text, start, end)),
         start  |-> start,
         break  |-> end = text.ntokens]

\* Variant: the loop does not break when the window reaches the end.
ChunkIterationNoBreak(text, chunk_size, overlap, start, chunks) ==
    LET end == Min(start + chunk_size, text.ntokens)
    IN  [chunks |-> Append(chunks, DecodeSlice(text, start, end)),
         start  |-> start + chunk_size - overlap,
         break  |-> FALSE]

\* incremental_chunk_embed.chunk_text, lines 48-52: the body of the while
\* loop, entered with start < len(tokens).
ChunkIteration(text, chunk_size, overlap, start, chunks) ==
    LET end == Min(start + chunk_size, text.ntokens)
    IN  [chunks |-> Append(chunks, DecodeSlice(text, start, end)),
         start  |-> IF end = text.ntokens THEN start
                    ELSE start + chunk_size - overlap,
         break  |-> end = text.ntokens]

\* The while loop of chunk_text, from position start with the chunks so far.
RECURSIVE ChunkLoop(_, _, _, _, _)
ChunkLoop(text, chunk_size, overlap, start, chunks) ==
    IF ~(start < text.ntokens) THEN chunks
    ELSE LET it == ChunkIteration(text, chunk_size, overlap, start, chunks)
         IN  IF it.break THEN it.chunks
             ELSE ChunkLoop(text, chunk_size, overlap, it.start, it.chunks)

chunk_text(text) == ChunkLoop(text, CHUNK_SIZE, CHUNK_OVERLAP, 0, <<>>)

\* Variant: the query-time chunker keeps one token less of overlap.
QueryChunkIterationShortOverlap(text, chunk_size, overlap, start, chunks) ==
    LET end == Min(start + chunk_size, text.ntokens)
    IN  [chunks |-> Append(chunks, DecodeSlice(text, start, end)),
         start  |-> IF end = text.ntokens THEN start
                    ELSE start + chunk_size - overlap + 1,
         break  |-> end = text.ntokens]

\* query_rag.chunk_text, lines 47-52: the body of its while loop.
QueryChunkIteration(text, chunk_size, overlap, start, chunks) ==
    LET end == Min(start + chunk_size, text.ntokens)
    IN  [chunks |-> Append(chunks, DecodeSlice(text, start, end)),
         start  |-> IF end = text.ntokens THEN start
                    ELSE start + chunk_size - overlap,
         break  |-> end = text.ntokens]

RECURSIVE QueryChunkLoop(_, _, _, _, _)
QueryChunkLoop(text, chunk_size, overlap, start, chunks) ==
    IF ~(start < text.ntokens) THEN chunks
    ELSE LET it == QueryChunkIteration(text, chunk_size, overlap, start, chunks)
         IN  IF it.break THEN it.chunks
             ELSE QueryChunkLoop(text, chunk_size, overlap, it.start, it.chunks)

\* query_rag.chunk_text with its default arguments.
query_chunk_text(text) ==
    QueryChunkLoop(text, QUERY_CHUNK_SIZE, QUERY_CHUNK_OVERLAP, 0, <<>>)

\* ---------------------------------------------------------------- embedder
\* Width of the vectors the embedding model named by EMBED_MODEL returns.
VARIABLE embed_dims

\* embed_texts: one vector per text, same order.
embed_texts(texts) ==
    [i \in 1..Len(texts) |-> [of |-> texts[i], dims |-> embed_dims]]

\* ------------------------------------------------------------------- files
Absent == [state |-> "absent", data |-> <<>>]
Torn == [state |-> "torn", data |-> <<>>]
Written(data) == [state |-> "ok", data |-> data]

\* os.path.exists
Exists(file) == file.state # "absent"

Range(s) == {s[i] : i \in 1..Len(s)}

\* The empty in-memory state: index = None, metadata = [].
NoIndex == [none |-> TRUE, items |-> <<>>]

\* Variant: the key is built from the entry's id instead of its chunk_index.
KeyOfById(m) == <<m.ticker, m.accession, m.id>>

KeyOf(m) == <<m.ticker, m.accession, m.chunk_index>>

\* Variant: the deduplication set is not rebuilt from the loaded metadata.
ExistingKeysNone(metadata) == {}

\* {(m['ticker'], m['accession'], m['chunk_index']) for m in metadata}
ExistingKeys(metadata) == {KeyOf(m) : m \in Range(metadata)}

\* Variant: the largest id plus one, so that a run that loaded a store
\* leaves one id out.
MaxIdAndOne(metadata) ==
    1 + CHOOSE x \in {m.id : m \in Range(metadata)} :
            \A y \in {m.id : m \in Range(metadata)} : y <= x

\* max(m['id'] for m in metadata), line 72
MaxId(metadata) ==
    CHOOSE x \in {m.id : m \in Range(metadata)} :
        \A y \in {m.id : m \in Range(metadata)} : y <= x

\* initialize_index: what it returns, or that it raised (json.load of a
\* truncated file, max() of an empty list, faiss.read_index of a truncated
\* file).
initialize_index(iFile, mFile) ==
    IF Exists(mFile) /\ Exists(iFile)
    THEN IF mFile.state = "torn" \/ Len(mFile.data) = 0 \/ iFile.state = "torn"
         THEN [raised |-> TRUE, index |-> NoIndex, metadata |-> <<>>,
               existing_keys |-> {}, next_id |-> 0]
         ELSE [raised |-> FALSE,
               index |-> [none |-> FALSE, items |-> iFile.data],
               metadata |-> mFile.data,
               existing_keys |-> ExistingKeys(mFile.data),
               next_id |-> MaxId(mFile.data) + 1]
    ELSE [raised |-> FALSE, index |-> NoIndex, metadata |-> <<>>,
          existing_keys |-> {}, next_id |-> 0]

\* ------------------------------------------------------- process_chunk_batch
\* Number of iterations of  for i in range(0, len(chunks_batch), BATCH_SIZE).
NumSubBatches(chunks_batch) == (Len(chunks_batch) + BATCH_SIZE - 1) \div BATCH_SIZE

\* Variant: the slice takes one text more, chunks_batch[i:i+BATCH_SIZE+1].
SubBatchOneMore(chunks_batch, j) ==
    SubSeq(chunks_batch, (j - 1) * BATCH_SIZE + 1,
           Min(j * BATCH_SIZE + 1, Len(chunks_batch)))

\* chunks_batch[i:i+BATCH_SIZE] of the j-th iteration (j = 1, 2, ...).
SubBatch(chunks_batch, j) ==
    SubSeq(chunks_batch, (j - 1) * BATCH_SIZE + 1,
           Min(j * BATCH_SIZE, Len(chunks_batch)))

\* batch_embeddings after the first n iterations of the embedding loop.
RECURSIVE BatchEmbeddings(_, _)
BatchEmbeddings(chunks_batch, n) ==
    IF n = 0 THEN <<>>
    ELSE BatchEmbeddings(chunks_batch, n - 1) \o embed_texts(SubBatch(chunks_batch, n))

\* index.d: the width build_empty_faiss(dims) gave the index at its first
\* add, which is the width of every vector it holds.
IndexWidth(index) == index.items[1].vec.dims

\* index.add_with_ids(arr, ids) raises: faiss checks the width of arr
\* against index.d before it stores anything.
WidthRejected(index, arr) ==
    ~index.none /\ Len(index.items) > 0 /\ IndexWidth(index) # arr[1].dims

\* index.add_with_ids(arr, ids): the i-th vector is stored under the i-th id.
AddWithIds(index, arr, ids) ==
    [none |-> FALSE,
     items |-> index.items \o [i \in 1..Len(ids) |-> [id |-> ids[i], vec |-> arr[i]]]]

\* Variant: every sub-batch is added to the index and the metadata as soon as
\* it is embedded, so a failing sub-batch leaves the earlier ones added.
process_chunk_batch_incremental(chunks_batch, entries_batch, index, metadata, fail) ==
    LET n == IF fail > 0 THEN fail - 1 ELSE NumSubBatches(chunks_batch)
        done == SubSeq(entries_batch, 1, Min(n * BATCH_SIZE, Len(entries_batch)))
        ids == [i \in 1..Len(done) |-> done[i].id]
    IN  [raised |-> fail > 0,
         error |-> IF fail > 0 THEN "embed_failed" ELSE "none",
         index |-> IF Len(done) = 0 THEN index
                   ELSE AddWithIds(index, BatchEmbeddings(chunks_batch, n), ids),
         metadata |-> metadata \o done,
         calls |-> [j \in 1..(IF fail > 0 THEN fail ELSE n) |->
                        SubBatch(chunks_batch, j)]]

\* Variant: the metadata list is extended before the vectors are added.
process_chunk_batch_extend_first(chunks_batch, entries_batch, index, metadata, fail) ==
    IF Len(chunks_batch) = 0
    THEN [raised |-> FALSE, error |-> "none", index |-> index,
          metadata |-> metadata, calls |-> <<>>]
    ELSE IF fail > 0
    THEN [raised |-> TRUE, error |-> "embed_failed", index |-> index,
          metadata |-> metadata,
          calls |-> [j \in 1..fail |-> SubBatch(chunks_batch, j)]]
    ELSE LET n == NumSubBatches(chunks_batch)
             batch_embeddings == BatchEmbeddings(chunks_batch, n)
             ids == [i \in 1..Len(entries_batch) |-> entries_batch[i].id]
         IN  IF WidthRejected(index, batch_embeddings)
             THEN [raised |-> TRUE, error |-> "add_failed", index |-> index,
                   metadata |-> metadata \o entries_batch,
                   calls |-> [j \in 1..n |-> SubBatch(chunks_batch, j)]]
             ELSE [raised |-> FALSE, error |-> "none",
                   index |-> AddWithIds(index, batch_embeddings, ids),
                   metadata |-> metadata \o entries_batch,
                   calls |-> [j \in 1..n |-> SubBatch(chunks_batch, j)]]

\* process_chunk_batch.  fail = 0: every embedder call returns; fail = j > 0:
\* the embedder call of the j-th sub-batch raises.  calls: the batches the
\* embedder was called with, in order.  error: "embed_failed" when an
\* embedder call raised, "add_failed" when add_with_ids did.
process_chunk_batch(chunks_batch, entries_batch, index, metadata, fail) ==
    IF Len(chunks_batch) = 0
    THEN [raised |-> FALSE, error |-> "none", index |-> index,
          metadata |-> metadata, calls |-> <<>>]
    ELSE IF fail > 0
    THEN [raised |-> TRUE, error |-> "embed_failed", index |-> index,
          metadata |-> metadata,
          calls |-> [j \in 1..fail |-> SubBatch(chunks_batch, j)]]
    ELSE LET n == NumSubBatches(chunks_batch)
             batch_embeddings == BatchEmbeddings(chunks_batch, n)
             ids == [i \in 1..Len(entries_batch) |-> entries_batch[i].id]
         IN  IF WidthRejected(index, batch_embeddings)
             THEN [raised |-> TRUE, error |-> "add_failed", index |-> index,
                   metadata |-> metadata,
                   calls |-> [j \in 1..n |-> SubBatch(chunks_batch, j)]]
             ELSE [raised |-> FALSE, error |-> "none",
                   index |-> AddWithIds(index, batch_embeddings, ids),
                   metadata |-> metadata \o entries_batch,
                   calls |-> [j \in 1..n |-> SubBatch(chunks_batch, j)]]

\* ---------------------------------------------------------------- retrieval
\* The queries retrieve is called with: an empty text and a question.
Queries == {"", "revenue"}

\* What index.search(arr, k) can return for an index holding items: k ranks,
\* each naming a stored vector by its position in the index, no vector
\* twice; an index of fewer than k vectors fills the last ranks (position 0
\* here).  Which vectors come first depends on the query vector.
SearchOutputs(items, k) ==
    {found \in [1..k -> 0..Len(items)] :
        /\ \A i, j \in 1..k : (i # j /\ found[i] # 0) => found[i] # found[j]
        /\ \A i \in 1..k : found[i] # 0 <=> i <= Len(items)}

\* ids[0][rank]: the id the vector at position p was added under, -1 for a
\* rank that is filled.
Label(items, p) == IF p = 0 THEN -1 ELSE items[p].id

\* distances[0][rank]: the inner product of the query vector with the vector
\* at position p, written as the pair it is computed from.
Distance(query, items, p) ==
    IF p = 0 THEN [query |-> query, vec |-> "none"]
    ELSE [query |-> query, vec |-> items[p].vec]

\* os.path.join(DATA_DIR, entry["ticker"], f"{entry['accession']}.json")
PathDocs(entry, present) ==
    {d \in present : Ticker(d) = entry.ticker /\ Accession(d) = entry.accession}

\* Variant: a missing file ends the loop instead of skipping the hit.
MissingFileStop(rank, found) == Len(found) + 1

\* Line 106, continue: the rank the loop goes on with after a
\* FileNotFoundError.
MissingFileSkip(rank, found) == rank + 1

\* Variant: the text is taken from the chunk after the entry's chunk_index.
HitOfNextChunk(entry, score, chunks) ==
    [id |-> entry.id, ticker |-> entry.ticker, accession |-> entry.accession,
     chunk_index |-> entry.chunk_index, filing_date |-> entry.filing_date,
     form |-> entry.form, score |-> score,
     text |-> chunks[Min(entry.chunk_index + 2, Len(chunks))]]

\* Lines 81-82 and 92-98: the copy of the metadata entry with its score, the
\* text chunks[entry["chunk_index"]] and the form of the record.
Hit(entry, score, chunks) ==
    [id |-> entry.id, ticker |-> entry.ticker, accession |-> entry.accession,
     chunk_index |-> entry.chunk_index, filing_date |-> entry.filing_date,
     form |-> entry.form, score |-> score,
     text |-> chunks[entry.chunk_index + 1]]

\* Variant: the hit is put in front of the hits found so far.
PrependHit(hits, entry) == <<entry>> \o hits

\* Line 105: hits.append(entry)
AppendHit(hits, entry) == Append(hits, entry)

\* Lines 76-105: the loop over the ranks of the search output, from rank on
\* with the hits so far.  raised: chunks[entry["chunk_index"]] is out of
\* range.
RECURSIVE RetrieveLoop(_, _, _, _, _, _, _)
RetrieveLoop(query, metadata, items, found, present, rank, hits) ==
    IF rank > Len(found) THEN [raised |-> FALSE, hits |-> hits]
    ELSE LET vid == Label(items, found[rank]) IN
         IF vid < 0 \/ vid >= Len(metadata)
         THEN RetrieveLoop(query, metadata, items, found, present, rank + 1, hits)
         ELSE LET entry == metadata[vid + 1] IN
              IF PathDocs(entry, present) = {}
              THEN RetrieveLoop(query, metadata, items, found, present,
                                MissingFileSkip(rank, found), hits)
              ELSE LET record == CHOOSE d \in PathDocs(entry, present) : TRUE
                       chunks == query_chunk_text(Text(record))
                   IN  IF entry.chunk_index >= Len(chunks)
                       THEN [raised |-> TRUE, hits |-> hits]
                       ELSE RetrieveLoop(query, metadata, items, found, present,
                                rank + 1,
                                AppendHit(hits, Hit(entry,
                                                    Distance(query, items, found[rank]),
                                                    chunks)))

\* Variant: only a store with neither file counts as missing.
StoreMissingBoth(mFile, iFile) == ~Exists(mFile) /\ ~Exists(iFile)

\* Line 61: not os.path.exists(METADATA_FILE) or not
\* os.path.exists(INDEX_FILE)
StoreMissing(mFile, iFile) == ~Exists(mFile) \/ ~Exists(iFile)

\* The frame query_rag.retrieve ends with.  found: what index.search gave;
\* fail: the embedder call raises; embedded: the embedder was called.
retrieve(query, k, mFile, iFile, present, found, fail) ==
    LET Raised(error, embedded) ==
            [pc |-> "raised", module |-> "query_rag", error |-> error,
             query |-> query, k |-> k,
             embedded |-> embedded, found |-> <<>>, hits |-> <<>>]
    IN  IF StoreMissing(mFile, iFile) THEN Raised("not_found", FALSE)
        ELSE IF mFile.state = "torn" \/ iFile.state = "torn"
        THEN Raised("load_failed", FALSE)
        ELSE IF fail THEN Raised("embed_failed", TRUE)
        ELSE IF IndexWidth([items |-> iFile.data]) # embed_dims
        THEN Raised("search_failed", TRUE)
        ELSE LET r == RetrieveLoop(query, mFile.data, iFile.data, found, present,
                                   1, <<>>)
             IN  IF r.raised
                 THEN [Raised("index_error", TRUE) EXCEPT !.found = found]
                 ELSE [pc |-> "returned", module |-> "query_rag",
                       error |-> "none", query |-> query,
                       k |-> k, embedded |-> TRUE, found |-> found,
                       hits |-> r.hits]

\* incremental_chunk_embed.retrieve, lines 236-240: the loop over ids[0],
\* from rank on with the hits so far.  raised: metadata[vid] is out of
\* range.
RECURSIVE BuilderRetrieveLoop(_, _, _, _, _)
BuilderRetrieveLoop(metadata, items, found, rank, hits) ==
    IF rank > Len(found) THEN [raised |-> FALSE, hits |-> hits]
    ELSE LET vid == Label(items, found[rank]) IN
         IF vid < 0
         THEN BuilderRetrieveLoop(metadata, items, found, rank + 1, hits)
         ELSE IF vid >= Len(metadata)
         THEN [raised |-> TRUE, hits |-> hits]
         ELSE BuilderRetrieveLoop(metadata, items, found, rank + 1,
                                  Append(hits, metadata[vid + 1]))

\* The frame incremental_chunk_embed.retrieve ends with (lines 225-241).
\* open(METADATA_FILE) and faiss.read_index(INDEX_FILE) raise for a file
\* that is not there, json.load and read_index for a truncated one.
builder_retrieve(query, k, mFile, iFile, found, fail) ==
    LET Raised(error, embedded) ==
            [pc |-> "raised", module |-> "incremental_chunk_embed",
             error |-> error, query |-> query, k |-> k,
             embedded |-> embedded, found |-> <<>>, hits |-> <<>>]
    IN  IF ~Exists(mFile) THEN Raised("not_found", FALSE)
        ELSE IF mFile.state = "torn" THEN Raised("load_failed", FALSE)
        ELSE IF ~Exists(iFile) THEN Raised("not_found", FALSE)
        ELSE IF iFile.state = "torn" THEN Raised("load_failed", FALSE)
        ELSE IF fail THEN Raised("embed_failed", TRUE)
        ELSE IF IndexWidth([items |-> iFile.data]) # embed_dims
        THEN Raised("search_failed", TRUE)
        ELSE LET r == BuilderRetrieveLoop(mFile.data, iFile.data, found, 1, <<>>)
             IN  IF r.raised
                 THEN [Raised("index_error", TRUE) EXCEPT !.found = found]
                 ELSE [pc |-> "returned", module |-> "incremental_chunk_embed",
                       error |-> "none", query |-> query,
                       k |-> k, embedded |-> TRUE, found |-> found,
                       hits |-> r.hits]

\* ------------------------------------------------- downloader, operators
\* The accessions of the 10-K and 10-Q filings EDGAR can list for the ticker
\* of DEMO_COMPANIES, and the accession <TICKER>_CF of its Company Facts.
Filings == 1..NumFilings

CompanyFacts == 0

\* The destinations data/<TICKER>/<ACCESSION>.json.
Dests == Filings \cup {CompanyFacts}

\* A destination: no file, a file json.dump did not finish, a whole record
\* with its text (the filing; for Company Facts, the facts of the filings
\* listed at the time of the download).
NoFile == [state |-> "absent", text |-> {}]

TornFile == [state |-> "torn", text |-> {}]

Record(dest, listed) ==
    [state |-> "ok",
     text |-> IF dest = CompanyFacts THEN listed \cup {CompanyFacts} ELSE {dest}]

\* Variant: only a whole record counts as existing.
AlreadyExistsWhole(file) == file.state = "ok"

\* Lines 362 and 394: os.path.exists(dest)
AlreadyExists(file) == file.state # "absent"

\* zip(forms, dates, accs) restricted to matching forms in the date range:
\* the listed accessions in the order EDGAR gives them.
Listings(listed) ==
    {q \in [1..Cardinality(listed) -> listed] :
        \A i, j \in 1..Cardinality(listed) : i # j => q[i] # q[j]}

\* ------------------------------------------------------------------- state
VARIABLES
    corpus,                 \* documents present under data/
    idxFile,                \* faiss_index.idx
    metaFile,               \* faiss_metadata.json
    pc,                     \* position of the builder process
    after,                  \* call site of save_index_metadata: "loop" | "return"
    MAX_CHUNKS_IN_MEMORY,   \* as read from the environment by this process
    SAVE_PROGRESS_EVERY,    \* as read from the environment by this process
    index,                  \* in-memory FAISS index (NoIndex: None)
    metadata,               \* in-memory metadata list
    existing_keys,
    next_id,
    current_chunks,
    current_entries,
    total_new_chunks,
    processed_chunks,
    todo,                   \* documents the listdir loops have not reached
    record,                 \* document being processed (0: none)
    chunks,                 \* chunk_text(full_text) of that document
    idx,                    \* enumerate index of the next chunk
    embedCalls,             \* history: embedder calls of this run, in order
    outcome,                \* history: how the last run ended (see below)
    prev,                   \* history: outcome when this run started
    committed,              \* history: files as found at open or left by the last
                            \*          completed save_index_metadata of this run
    kills,                  \* history: number of kills so far
    call,                   \* frame of a call of incremental_chunk_embed.chunk_text
    qcall,                  \* frame of a call of query_rag.chunk_text
    rcall,                  \* frame of a call of one of the retrieve functions
    wcall,                  \* frame of initialize_index in a second builder process
    edgar,                  \* filings EDGAR lists for the ticker in the date range
    files,                  \* data/<TICKER>/: the file at each destination
    dl,                     \* the downloader process (download_filings.main)
    lastRun                 \* history: how the last downloader run ended

\* outcome: "none"               no run yet
\*          "running"            a run is in progress
\*          "ok"                 update_embeddings returned
\*          "ok_grown"           it returned, and a document was added or
\*                               removed since
\*          "embed_failed"       an embedder call raised
\*          "add_failed"         index.add_with_ids raised
\*          "load_failed"        initialize_index raised
\*          "killed"             killed outside save_index_metadata, nothing
\*                               added to the store since the last persist
\*          "killed_unpersisted" killed outside save_index_metadata with
\*                               chunks added to the store and not persisted
\*          "killed_in_persist"  killed inside save_index_metadata

disk == <<idxFile, metaFile>>
config == <<MAX_CHUNKS_IN_MEMORY, SAVE_PROGRESS_EVERY>>
store == <<index, metadata>>
staging == <<current_chunks, current_entries>>
counters == <<next_id, total_new_chunks, processed_chunks>>
cursor == <<todo, record, chunks, idx>>

chunker == <<call, qcall>>
retriever == <<rcall, wcall>>

builder == <<corpus, idxFile, metaFile, pc, after, MAX_CHUNKS_IN_MEMORY,
             SAVE_PROGRESS_EVERY, index, metadata, existing_keys, next_id,
             current_chunks, current_entries, total_new_chunks,
             processed_chunks, todo, record, chunks, idx, embedCalls, outcome,
             prev, committed, kills, embed_dims>>

downloader == <<edgar, files, dl, lastRun>>

vars == <<builder, chunker, retriever, downloader>>

\* No call of chunk_text is being followed.
NoCall == [pc |-> "none"]

\* No call of retrieve is being followed.
NoRetrieve == [pc |-> "none"]

\* No builder process exists and nothing was ever written.
InitBuilder ==
    /\ corpus = {}
    /\ idxFile = Absent
    /\ metaFile = Absent
    /\ pc = "idle"
    /\ after = "return"
    /\ MAX_CHUNKS_IN_MEMORY = 1
    /\ SAVE_PROGRESS_EVERY = 1
    /\ index = NoIndex
    /\ metadata = <<>>
    /\ existing_keys = {}
    /\ next_id = 0
    /\ current_chunks = <<>>
    /\ current_entries = <<>>
    /\ total_new_chunks = 0
    /\ processed_chunks = 0
    /\ todo = {}
    /\ record = 0
    /\ chunks = <<>>
    /\ idx = 0
    /\ embedCalls = <<>>
    /\ outcome = "none"
    /\ prev = "none"
    /\ committed = <<Absent, Absent>>
    /\ kills = 0
    /\ embed_dims = 1

\* No downloader is running.
NoDownload ==
    [pc |-> "idle", listed |-> {}, queue |-> <<>>, downloads |-> 0,
     errors |-> 0, issued |-> {}]

\* data/ is empty, EDGAR lists nothing yet, no run has been made.
InitDownloader ==
    /\ edgar = {}
    /\ files = [dest \in Dests |-> NoFile]
    /\ dl = NoDownload
    /\ lastRun = [outcome |-> "none", listed |-> {}, downloads |-> 0, errors |-> 0]

Init ==
    /\ InitBuilder
    /\ call = NoCall
    /\ qcall = NoCall
    /\ rcall = NoRetrieve
    /\ wcall = NoCall
    /\ InitDownloader

\* Nothing is left of a process that is gone.
NoProcess ==
    /\ pc' = "idle"
    /\ after' = "return"
    /\ MAX_CHUNKS_IN_MEMORY' = 1
    /\ SAVE_PROGRESS_EVERY' = 1
    /\ index' = NoIndex
    /\ metadata' = <<>>
    /\ existing_keys' = {}
    /\ next_id' = 0
    /\ current_chunks' = <<>>
    /\ current_entries' = <<>>
    /\ total_new_chunks' = 0
    /\ processed_chunks' = 0
    /\ todo' = {}
    /\ record' = 0
    /\ chunks' = <<>>
    /\ idx' = 0
    /\ embedCalls' = <<>>
    /\ prev' = "none"
    /\ committed' = <<Absent, Absent>>

\* ------------------------------------------------------------- downloader
\* download_filings.main writes data/<TICKER>/<ACCESSION>.json for a
\* document that is not there yet.
AddDocument ==
    /\ pc = "idle"
    /\ \E d \in Docs \ corpus : corpus' = corpus \cup {d}
    /\ outcome' = IF outcome = "ok" THEN "ok_grown" ELSE outcome
    /\ UNCHANGED <<disk, pc, after, config, store, existing_keys, staging,
                   counters, cursor, embedCalls, prev, committed, kills>>
    /\ UNCHANGED <<chunker, retriever, downloader, embed_dims>>

\* EMBED_MODEL (line 26) is changed to a model whose vectors have another
\* width, after a store was written with the old one.
ChangeEmbedder ==
    /\ pc = "idle"
    /\ embed_dims = 1
    /\ idxFile.state = "ok"
    /\ metaFile.state = "ok"
    /\ embed_dims' = 2
    /\ UNCHANGED <<corpus, disk, pc, after, config, store, existing_keys,
                   staging, counters, cursor, embedCalls, outcome, prev,
                   committed, kills, chunker, retriever, downloader>>

\* ---------------------------------------------------------------- builder
\* Variant: the ceiling test is strict.
CeilingReachedStrict(staged, ceiling) == staged > ceiling

\* Line 185:  if len(current_chunks) >= MAX_CHUNKS_IN_MEMORY
CeilingReached(staged, ceiling) == staged >= ceiling

\* Variant: the checkpoint test is strict.
CheckpointDueStrict(processed, interval) == processed > interval

\* Line 194:  if processed_chunks >= SAVE_PROGRESS_EVERY
CheckpointDue(processed, interval) == processed >= interval

\* Variant: chunk_index counts from 1.
EntryOneBased(d, id, i) ==
    [id |-> id, ticker |-> Ticker(d), accession |-> Accession(d),
     chunk_index |-> i + 1, filing_date |-> d, form |-> "10-K"]

\* The entry staged for chunk number i of document d under identifier id.
Entry(d, id, i) ==
    [id |-> id, ticker |-> Ticker(d), accession |-> Accession(d),
     chunk_index |-> i, filing_date |-> d, form |-> "10-K"]

\* The exception raised in process_chunk_batch leaves update_embeddings.
Raise(r) ==
    /\ pc' = "ended"
    /\ outcome' = r.error
    /\ embedCalls' = embedCalls \o r.calls

\* update_embeddings, line 130 and the start of the walk: a new process reads
\* its two environment settings and opens the store.
StartRun ==
    /\ pc = "idle"
    /\ \E mx \in 0..MaxCeiling, sv \in 0..MaxInterval :
           /\ MAX_CHUNKS_IN_MEMORY' = mx
           /\ SAVE_PROGRESS_EVERY' = sv
    /\ LET r == initialize_index(idxFile, metaFile) IN
           /\ index' = r.index
           /\ metadata' = r.metadata
           /\ existing_keys' = r.existing_keys
           /\ next_id' = r.next_id
           /\ pc' = IF r.raised THEN "ended" ELSE "walk"
           /\ outcome' = IF r.raised THEN "load_failed" ELSE "running"
           /\ todo' = IF r.raised THEN {} ELSE corpus
    /\ current_chunks' = <<>>
    /\ current_entries' = <<>>
    /\ total_new_chunks' = 0
    /\ processed_chunks' = 0
    /\ record' = 0
    /\ chunks' = <<>>
    /\ idx' = 0
    /\ embedCalls' = <<>>
    /\ prev' = outcome
    /\ committed' = <<idxFile, metaFile>>
    /\ UNCHANGED <<corpus, disk, after, kills>>
    /\ UNCHANGED <<chunker, retriever, downloader, embed_dims>>

\* Lines 144-164: the listdir loops reach the next file; all files of one
\* ticker directory are visited before the next directory, in the order the
\* file system lists them.
OpenDocument ==
    /\ pc = "walk"
    /\ \E d \in todo :
           /\ (record # 0 /\ \E e \in todo : Ticker(e) = Ticker(record))
                  => Ticker(d) = Ticker(record)
           /\ record' = d
           /\ chunks' = chunk_text(Text(d))
           /\ todo' = todo \ {d}
    /\ idx' = 0
    /\ pc' = "chunks"
    /\ UNCHANGED <<corpus, disk, after, config, store, existing_keys, staging,
                   counters, embedCalls, outcome, prev, committed, kills>>
    /\ UNCHANGED <<chunker, retriever, downloader, embed_dims>>

\* Lines 166-197: one iteration of  for idx, chunk in enumerate(chunks).
StageChunk ==
    /\ pc = "chunks"
    /\ idx < Len(chunks)
    /\ idx' = idx + 1
    /\ LET key == <<Ticker(record), Accession(record), idx>>
           cc == Append(current_chunks, chunks[idx + 1])
           ce == Append(current_entries, Entry(record, next_id, idx))
       IN  IF key \in existing_keys
           THEN UNCHANGED <<pc, after, store, staging, counters, embedCalls, outcome>>
           ELSE /\ next_id' = next_id + 1
                /\ total_new_chunks' = total_new_chunks + 1
                /\ IF CeilingReached(Len(cc), MAX_CHUNKS_IN_MEMORY)
                   THEN \E fail \in 0..NumSubBatches(cc) :
                        LET r == process_chunk_batch(cc, ce, index, metadata, fail) IN
                            /\ index' = r.index
                            /\ metadata' = r.metadata
                            /\ IF r.raised
                               THEN /\ Raise(r)
                                    /\ current_chunks' = cc
                                    /\ current_entries' = ce
                                    /\ UNCHANGED <<after, processed_chunks>>
                               ELSE /\ embedCalls' = embedCalls \o r.calls
                                    /\ current_chunks' = <<>>
                                    /\ current_entries' = <<>>
                                    /\ processed_chunks' = processed_chunks + Len(cc)
                                    /\ IF CheckpointDue(processed_chunks + Len(cc),
                                                     SAVE_PROGRESS_EVERY)
                                       THEN pc' = "save_index" /\ after' = "loop"
                                       ELSE UNCHANGED <<pc, after>>
                                    /\ UNCHANGED outcome
                   ELSE /\ current_chunks' = cc
                        /\ current_entries' = ce
                        /\ UNCHANGED <<pc, after, store, processed_chunks,
                                       embedCalls, outcome>>
    /\ UNCHANGED <<corpus, disk, config, existing_keys, todo, record, chunks,
                   prev, committed, kills>>
    /\ UNCHANGED <<chunker, retriever, downloader, embed_dims>>

\* Lines 199-201: the chunks of the file are exhausted.
CloseDocument ==
    /\ pc = "chunks"
    /\ idx = Len(chunks)
    /\ pc' = "walk"
    /\ chunks' = <<>>
    /\ UNCHANGED <<corpus, disk, after, config, store, existing_keys, staging,
                   counters, todo, record, idx, embedCalls, outcome, prev,
                   committed, kills>>
    /\ UNCHANGED <<chunker, retriever, downloader, embed_dims>>

\* Variant: a run that found a single new chunk counts as having none.
NothingNewUpToOne(total) == total <= 1

\* Line 208:  if total_new_chunks == 0
NothingNew(total) == total = 0

\* Lines 203-213 up to the call of save_index_metadata: the walk is over.
FinalFlush ==
    /\ pc = "walk"
    /\ todo = {}
    /\ \E fail \in 0..NumSubBatches(current_chunks) :
       LET r == process_chunk_batch(current_chunks, current_entries, index,
                                    metadata, fail) IN
           /\ index' = r.index
           /\ metadata' = r.metadata
           /\ IF r.raised
              THEN /\ Raise(r)
                   /\ UNCHANGED <<after, processed_chunks>>
              ELSE /\ embedCalls' = embedCalls \o r.calls
                   /\ processed_chunks' = processed_chunks + Len(current_chunks)
                   /\ IF NothingNew(total_new_chunks)
                      THEN pc' = "ended" /\ outcome' = "ok" /\ UNCHANGED after
                      ELSE pc' = "save_index" /\ after' = "return" /\ UNCHANGED outcome
    /\ UNCHANGED <<corpus, disk, config, existing_keys, staging, next_id,
                   total_new_chunks, cursor, prev, committed, kills>>
    /\ UNCHANGED <<chunker, retriever, downloader, embed_dims>>

\* save_index_metadata, line 84: faiss.write_index(index, INDEX_FILE).
WriteIndex ==
    /\ pc = "save_index"
    /\ idxFile' = Written(index.items)
    /\ pc' = "save_meta"
    /\ UNCHANGED <<corpus, metaFile, after, config, store, existing_keys,
                   staging, counters, cursor, embedCalls, outcome, prev,
                   committed, kills>>
    /\ UNCHANGED <<chunker, retriever, downloader, embed_dims>>

\* save_index_metadata, lines 86-87: json.dump(metadata, f), and the return
\* to the call site (line 197, or the end of update_embeddings).
WriteMetadata ==
    /\ pc = "save_meta"
    /\ metaFile' = Written(metadata)
    /\ committed' = <<idxFile, Written(metadata)>>
    /\ IF after = "loop"
       THEN pc' = "chunks" /\ processed_chunks' = 0 /\ UNCHANGED outcome
       ELSE pc' = "ended" /\ outcome' = "ok" /\ UNCHANGED processed_chunks
    /\ UNCHANGED <<corpus, idxFile, after, config, store, existing_keys,
                   staging, next_id, total_new_chunks, cursor, embedCalls,
                   prev, kills>>
    /\ UNCHANGED <<chunker, retriever, downloader, embed_dims>>

\* The process exits after update_embeddings returned or raised.
Exit ==
    /\ pc = "ended"
    /\ NoProcess
    /\ UNCHANGED <<corpus, disk, outcome, kills>>
    /\ UNCHANGED <<chunker, retriever, downloader, embed_dims>>

\* The process is killed.  Inside a write the file being written may be left
\* truncated; everything the process held in memory is gone.
Kill ==
    /\ pc \notin {"idle", "ended"}
    /\ kills < MaxKills
    /\ kills' = kills + 1
    /\ \E torn \in BOOLEAN :
           /\ idxFile' = IF pc = "save_index" /\ torn THEN Torn ELSE idxFile
           /\ metaFile' = IF pc = "save_meta" /\ torn THEN Torn ELSE metaFile
    /\ outcome' = IF pc \in {"save_index", "save_meta"} THEN "killed_in_persist"
                  ELSE IF processed_chunks > 0 THEN "killed_unpersisted"
                  ELSE "killed"
    /\ NoProcess
    /\ UNCHANGED corpus
    /\ UNCHANGED <<chunker, retriever, downloader, embed_dims>>

Next ==
    \/ AddDocument
    \/ ChangeEmbedder
    \/ StartRun
    \/ OpenDocument
    \/ StageChunk
    \/ CloseDocument
    \/ FinalFlush
    \/ WriteIndex
    \/ WriteMetadata
    \/ Exit
    \/ Kill

Spec == Init /\ [][Next]_vars

\* ------------------------------------------------- the chunkers on their own
\* chunk_text lines 44-46 (query_rag.py: 44-46): the frame on entry.
CallFrame(text, chunk_size, overlap) ==
    [text |-> text, chunk_size |-> chunk_size, overlap |-> overlap,
     start |-> 0, chunks |-> <<>>, pc |-> "loop"]

\* Both chunkers are called on the same text with the same arguments.
ChunkInit ==
    /\ InitBuilder
    /\ \E n \in 0..MaxTokens, chunk_size \in 1..MaxChunkSize,
          overlap \in 0..MaxChunkSize :
           /\ call = CallFrame([doc |-> 0, ntokens |-> n], chunk_size, overlap)
           /\ qcall = CallFrame([doc |-> 0, ntokens |-> n], chunk_size, overlap)
    /\ rcall = NoRetrieve
    /\ wcall = NoCall
    /\ InitDownloader

\* One iteration of the while loop of incremental_chunk_embed.chunk_text.
\* With overlap >= chunk_size the loop has no end: it is followed for
\* MaxTokens + 1 chunks, more than any call with overlap < chunk_size makes.
ChunkStep ==
    /\ call.pc = "loop"
    /\ call.start < call.text.ntokens
    /\ Len(call.chunks) <= MaxTokens
    /\ LET it == ChunkIteration(call.text, call.chunk_size, call.overlap,
                                call.start, call.chunks)
       IN  call' = [call EXCEPT !.chunks = it.chunks, !.start = it.start,
                                !.pc = IF it.break THEN "returned" ELSE "loop"]
    /\ UNCHANGED <<builder, retriever, downloader, qcall>>

\* Line 47 finds start >= len(tokens); line 53 returns.
ChunkReturn ==
    /\ call.pc = "loop"
    /\ ~(call.start < call.text.ntokens)
    /\ call' = [call EXCEPT !.pc = "returned"]
    /\ UNCHANGED <<builder, retriever, downloader, qcall>>

\* One iteration of the while loop of query_rag.chunk_text.
QueryChunkStep ==
    /\ qcall.pc = "loop"
    /\ qcall.start < qcall.text.ntokens
    /\ Len(qcall.chunks) <= MaxTokens
    /\ LET it == QueryChunkIteration(qcall.text, qcall.chunk_size, qcall.overlap,
                                     qcall.start, qcall.chunks)
       IN  qcall' = [qcall EXCEPT !.chunks = it.chunks, !.start = it.start,
                                  !.pc = IF it.break THEN "returned" ELSE "loop"]
    /\ UNCHANGED <<builder, retriever, downloader, call>>

QueryChunkReturn ==
    /\ qcall.pc = "loop"
    /\ ~(qcall.start < qcall.text.ntokens)
    /\ qcall' = [qcall EXCEPT !.pc = "returned"]
    /\ UNCHANGED <<builder, retriever, downloader, call>>

ChunkNext ==
    \/ ChunkStep
    \/ ChunkReturn
    \/ QueryChunkStep
    \/ QueryChunkReturn

ChunkSpec == ChunkInit /\ [][ChunkNext]_vars

\* --------------------------------------------- the builder, loop by loop
\* The builder process followed through the while loop of chunk_text as
\* well: line 165, chunks = chunk_text(record.get('text', '')), is the call
\* (pc = "chunking"), the iterations of the loop, and the return.  Before
\* the builder is started, one call of chunk_text with arguments of its own
\* is followed to its end.
FairInit ==
    /\ InitBuilder
    /\ \E n \in 0..MaxTokens, chunk_size \in 1..MaxChunkSize,
          overlap \in 0..MaxChunkSize :
           call = CallFrame([doc |-> 0, ntokens |-> n], chunk_size, overlap)
    /\ qcall = NoCall
    /\ rcall = NoRetrieve
    /\ wcall = NoCall
    /\ InitDownloader

\* The caller of the call made on its own has the chunks.
ChunkDone ==
    /\ pc = "idle"
    /\ call.pc = "returned"
    /\ call' = NoCall
    /\ UNCHANGED <<builder, retriever, downloader, qcall>>

\* Lines 144-165: the listdir loops reach the next file, and chunk_text is
\* called on its text.
OpenDocumentCall ==
    /\ pc = "walk"
    /\ \E d \in todo :
           /\ (record # 0 /\ \E e \in todo : Ticker(e) = Ticker(record))
                  => Ticker(d) = Ticker(record)
           /\ record' = d
           /\ call' = CallFrame(Text(d), CHUNK_SIZE, CHUNK_OVERLAP)
           /\ todo' = todo \ {d}
    /\ idx' = 0
    /\ pc' = "chunking"
    /\ UNCHANGED <<corpus, disk, after, config, store, existing_keys, staging,
                   counters, chunks, embedCalls, outcome, prev, committed, kills>>
    /\ UNCHANGED <<qcall, retriever, downloader, embed_dims>>

\* Line 165: chunk_text has returned its chunks.
OpenDocumentReturn ==
    /\ pc = "chunking"
    /\ call.pc = "returned"
    /\ chunks' = call.chunks
    /\ call' = NoCall
    /\ pc' = "chunks"
    /\ UNCHANGED <<corpus, disk, after, config, store, existing_keys, staging,
                   counters, todo, record, idx, embedCalls, outcome, prev,
                   committed, kills>>
    /\ UNCHANGED <<qcall, retriever, downloader, embed_dims>>

\* The steps of a process that is running: none of them waits for anything
\* but the process itself.
Running ==
    \/ ChunkStep
    \/ ChunkReturn
    \/ OpenDocumentCall
    \/ OpenDocumentReturn
    \/ StageChunk
    \/ CloseDocument
    \/ FinalFlush
    \/ WriteIndex
    \/ WriteMetadata

FairNext ==
    \/ ChunkDone
    \/ (call.pc = "none" /\ AddDocument)
    \/ (call.pc = "none" /\ StartRun)
    \/ Exit
    \/ Running

\* A process that can take a step takes one: the code is one thread without
\* a blocking wait, and the embedder call returns or raises.  Whether and
\* when a run is started, a document added or the ended process reaped is
\* left open; a kill is not considered.
FairSpec == FairInit /\ [][FairNext]_vars /\ WF_vars(Running)

\* ------------------------------------------------------ retrieval actions
\* The documents the written metadata names.
StoreDocs ==
    {d \in Docs : \E i \in 1..Len(metaFile.data) :
                      PathDocs(metaFile.data[i], {d}) # {}}

\* The file of a document the written metadata names is deleted or moved
\* away from data/.
RemoveDocument ==
    /\ pc = "idle"
    /\ rcall.pc = "none"
    /\ \E d \in corpus \cap StoreDocs : corpus' = corpus \ {d}
    /\ outcome' = IF outcome = "ok" THEN "ok_grown" ELSE outcome
    /\ UNCHANGED <<disk, pc, after, config, store, existing_keys, staging,
                   counters, cursor, embedCalls, prev, committed, kills,
                   embed_dims, chunker, retriever, downloader>>

\* query_rag.retrieve(query, k), called while no builder runs.
Retrieve ==
    /\ pc = "idle"
    /\ rcall.pc = "none"
    /\ \E query \in Queries, k \in 1..MaxK, fail \in BOOLEAN :
       \E found \in (IF idxFile.state = "ok" THEN SearchOutputs(idxFile.data, k)
                     ELSE {<<>>}) :
           rcall' = retrieve(query, k, metaFile, idxFile, corpus, found, fail)
    /\ UNCHANGED <<builder, chunker, downloader, wcall>>

\* incremental_chunk_embed.retrieve(query, k), called while no builder
\* runs.  It reads nothing under data/, so it is followed only while no
\* document of the store is missing: a missing one makes no difference.
BuilderRetrieve ==
    /\ pc = "idle"
    /\ rcall.pc = "none"
    /\ StoreDocs \subseteq corpus
    /\ \E query \in Queries, k \in 1..MaxK, fail \in BOOLEAN :
       \E found \in (IF idxFile.state = "ok" THEN SearchOutputs(idxFile.data, k)
                     ELSE {<<>>}) :
           rcall' = builder_retrieve(query, k, metaFile, idxFile, found, fail)
    /\ UNCHANGED <<builder, chunker, downloader, wcall>>

\* The caller has the result; the frame is gone.
RetrieveDone ==
    /\ rcall.pc # "none"
    /\ rcall' = NoRetrieve
    /\ UNCHANGED <<builder, chunker, downloader, wcall>>

\* The builder and the downloader act between calls of retrieve.  A builder
\* run over a corpus that lacks a document of the store is not followed: it
\* leaves the entries of that document as they are, so every store it can
\* write is also written by a run that sees the document, which is removed
\* afterwards.
RetrieveNext ==
    \/ (rcall.pc = "none" /\ AddDocument)
    \/ (rcall.pc = "none" /\ ChangeEmbedder)
    \/ (rcall.pc = "none" /\ StoreDocs \subseteq corpus /\ StartRun)
    \/ (rcall.pc = "none" /\ OpenDocument)
    \/ (rcall.pc = "none" /\ StageChunk)
    \/ (rcall.pc = "none" /\ CloseDocument)
    \/ (rcall.pc = "none" /\ FinalFlush)
    \/ (rcall.pc = "none" /\ WriteIndex)
    \/ (rcall.pc = "none" /\ WriteMetadata)
    \/ (rcall.pc = "none" /\ Exit)
    \/ (rcall.pc = "none" /\ Kill)
    \/ RemoveDocument
    \/ Retrieve
    \/ BuilderRetrieve
    \/ RetrieveDone

RetrieveSpec == Init /\ [][RetrieveNext]_vars

\* ------------------------------------------------- concurrent processes
\* Nothing in initialize_index, update_embeddings or either retrieve takes a
\* lock or looks for another process, so a second process can act on the
\* two files at any point of a builder run.

\* A second builder process starts while a run is in progress: the frame
\* its initialize_index() returns with (line 130).
SecondOpen ==
    /\ pc \notin {"idle", "ended"}
    /\ rcall.pc = "none"
    /\ wcall.pc = "none"
    /\ LET r == initialize_index(idxFile, metaFile) IN
           wcall' = [pc |-> IF r.raised THEN "raised" ELSE "opened",
                     index |-> r.index, metadata |-> r.metadata,
                     next_id |-> r.next_id]
    /\ UNCHANGED <<builder, chunker, downloader, rcall>>

\* The second process is not followed further.
SecondDone ==
    /\ wcall.pc # "none"
    /\ wcall' = NoCall
    /\ UNCHANGED <<builder, chunker, downloader, rcall>>

\* query_rag.retrieve is called while the builder is inside
\* save_index_metadata, after faiss.write_index and before json.dump.
RetrieveDuringPersist ==
    /\ pc = "save_meta"
    /\ rcall.pc = "none"
    /\ wcall.pc = "none"
    /\ \E query \in Queries \ {""}, found \in SearchOutputs(idxFile.data, 1) :
           rcall' = retrieve(query, 1, metaFile, idxFile, corpus, found, FALSE)
    /\ UNCHANGED <<builder, chunker, downloader, wcall>>

\* The builder goes on when the other process has its answer.
Quiet == rcall.pc = "none" /\ wcall.pc = "none"

ConcurrentNext ==
    \/ (Quiet /\ AddDocument)
    \/ (Quiet /\ ChangeEmbedder)
    \/ (Quiet /\ StartRun)
    \/ (Quiet /\ OpenDocument)
    \/ (Quiet /\ StageChunk)
    \/ (Quiet /\ CloseDocument)
    \/ (Quiet /\ FinalFlush)
    \/ (Quiet /\ WriteIndex)
    \/ (Quiet /\ WriteMetadata)
    \/ (Quiet /\ Exit)
    \/ (Quiet /\ Kill)
    \/ SecondOpen
    \/ SecondDone
    \/ RetrieveDuringPersist
    \/ RetrieveDone

ConcurrentSpec == Init /\ [][ConcurrentNext]_vars

\* ----------------------------------------------------- downloader, actions
\* EDGAR lists a new filing of the ticker (or date.today() moves on and a
\* filing comes into the date range).
Publish ==
    /\ dl.pc = "idle"
    /\ \E acc \in Filings \ edgar : edgar' = edgar \cup {acc}
    /\ UNCHANGED <<files, dl, lastRun, builder, chunker, retriever>>

\* main up to line 344: fetch_all_company_filings returns the listing, or
\* raises and the ticker is given up (lines 421-423).
StartDownload ==
    /\ dl.pc = "idle"
    /\ \/ \E queue \in Listings(edgar) :
              dl' = [NoDownload EXCEPT !.pc = "filings", !.listed = edgar,
                                       !.queue = queue]
       \/ dl' = [NoDownload EXCEPT !.pc = "ended", !.listed = edgar,
                                   !.errors = 1]
    /\ UNCHANGED <<edgar, files, lastRun, builder, chunker, retriever>>

\* What lines 362-386 and 394-419 do for one destination: nothing when the
\* file exists; else the request, which fails (errors) or is followed by
\* the write of the record (downloads).
Download(dest, ok) ==
    IF AlreadyExists(files[dest])
    THEN /\ UNCHANGED files
         /\ dl' = [dl EXCEPT !.queue = IF @ = <<>> THEN @ ELSE Tail(@),
                              !.pc = IF dest = CompanyFacts THEN "ended" ELSE @]
    ELSE /\ files' = IF ok THEN [files EXCEPT ![dest] = Record(dest, dl.listed)]
                     ELSE files
         /\ dl' = [dl EXCEPT !.queue = IF @ = <<>> THEN @ ELSE Tail(@),
                              !.pc = IF dest = CompanyFacts THEN "ended" ELSE @,
                              !.issued = @ \cup {dest},
                              !.downloads = IF ok THEN @ + 1 ELSE @,
                              !.errors = IF ok THEN @ ELSE @ + 1]

\* Lines 348-386: one iteration of the loop over the listed filings.
FilingStep ==
    /\ dl.pc = "filings"
    /\ dl.queue # <<>>
    /\ \E ok \in BOOLEAN : Download(Head(dl.queue), ok)
    /\ UNCHANGED <<edgar, lastRun, builder, chunker, retriever>>

\* Lines 390-419: Company Facts, after the last filing.
FactsStep ==
    /\ dl.pc = "filings"
    /\ dl.queue = <<>>
    /\ \E ok \in BOOLEAN : Download(CompanyFacts, ok)
    /\ UNCHANGED <<edgar, lastRun, builder, chunker, retriever>>

\* Lines 425-447: the summary; main returns.
DownloadExit ==
    /\ dl.pc = "ended"
    /\ lastRun' = [outcome |-> "done", listed |-> dl.listed,
                   downloads |-> dl.downloads, errors |-> dl.errors]
    /\ dl' = NoDownload
    /\ UNCHANGED <<edgar, files, builder, chunker, retriever>>

\* The process is killed in the loop; inside json.dump (lines 380-381,
\* 413-414) the file being written is left truncated.
DownloadKilled ==
    /\ dl.pc = "filings"
    /\ LET dest == IF dl.queue = <<>> THEN CompanyFacts ELSE Head(dl.queue) IN
           \E torn \in BOOLEAN :
               files' = IF torn /\ ~AlreadyExists(files[dest])
                        THEN [files EXCEPT ![dest] = TornFile]
                        ELSE files
    /\ lastRun' = [outcome |-> "killed", listed |-> dl.listed,
                   downloads |-> dl.downloads, errors |-> dl.errors]
    /\ dl' = NoDownload
    /\ UNCHANGED <<edgar, builder, chunker, retriever>>

DownloadNext ==
    \/ Publish
    \/ StartDownload
    \/ FilingStep
    \/ FactsStep
    \/ DownloadExit
    \/ DownloadKilled

DownloadSpec == Init /\ [][DownloadNext]_vars

\* ================================================================ claims
\* ChunkKey of a metadata entry.
ChunkKey(m) == <<m.ticker, m.accession, m.chunk_index>>

NoDuplicateIds(items) ==
    \A i, j \in 1..Len(items) : i # j => items[i].id # items[j].id

NoDuplicateKeys(entries) ==
    \A i, j \in 1..Len(entries) : i # j => ChunkKey(entries[i]) # ChunkKey(entries[j])

IdsOf(items) == {items[i].id : i \in 1..Len(items)}

\* The chunk keys of the documents under data/.
CorpusKeys ==
    UNION {{<<Ticker(d), Accession(d), i - 1>> :
                i \in 1..Len(chunk_text(Text(d)))} : d \in corpus}

\* The chunk texts of the corpus whose key is not in existing_keys.
NewChunks ==
    UNION {{chunk_text(Text(d))[i] :
                i \in {j \in 1..Len(chunk_text(Text(d))) :
                          <<Ticker(d), Accession(d), j - 1>> \notin existing_keys}} :
           d \in corpus}

RECURSIVE Flatten(_)
Flatten(seqs) == IF Len(seqs) = 0 THEN <<>> ELSE Head(seqs) \o Flatten(Tail(seqs))

Max(a, b) == IF a >= b THEN a ELSE b

\* C1: while update_embeddings runs, the ids of the in-memory index are the
\* ids of the in-memory metadata list, each held once by each.
C1_IndexMatchesMetadata ==
    pc \notin {"idle"} =>
        /\ IdsOf(index.items) = IdsOf(metadata)
        /\ NoDuplicateIds(index.items)
        /\ NoDuplicateIds(metadata)

\* C2: the two files are never seen one updated without the other: either
\* neither exists, or both are complete and hold the same ids in the same
\* order.
C2_PersistAtomic ==
    \/ idxFile.state = "absent" /\ metaFile.state = "absent"
    \/ /\ idxFile.state = "ok" /\ metaFile.state = "ok"
       /\ [i \in 1..Len(idxFile.data) |-> idxFile.data[i].id]
            = [i \in 1..Len(metaFile.data) |-> metaFile.data[i].id]

\* C3: the persisted metadata log never holds two entries with the same
\* ChunkKey, whatever runs, embedder failures and kills came before.
C3_DedupCorrectness ==
    metaFile.state = "ok" => NoDuplicateKeys(metaFile.data)

\* C3 witness: a run that followed an aborted or killed run skipped chunks
\* already persisted, staged new ones and persisted them.
C3_Witness ==
    /\ pc = "ended" /\ outcome = "ok"
    /\ prev \in {"embed_failed", "killed", "killed_unpersisted", "killed_in_persist"}
    /\ existing_keys # {}
    /\ total_new_chunks > 0
    /\ metaFile.state = "ok" /\ Len(metaFile.data) >= 3

\* C4: a run that follows a successful run over the same corpus stages
\* nothing, calls the embedder never, adds nothing and leaves both files as
\* it found them.
C4_IdempotentRebuild ==
    prev = "ok" =>
        /\ total_new_chunks = 0
        /\ current_chunks = <<>>
        /\ embedCalls = <<>>
        /\ index.items = idxFile.data
        /\ metadata = metaFile.data
        /\ pc \notin {"save_index", "save_meta"}
        /\ <<idxFile, metaFile>> = committed

\* C4 witness: such a second run has ended over a store of three entries.
C4_Witness ==
    /\ prev = "ok" /\ pc = "ended" /\ outcome = "ok"
    /\ metaFile.state = "ok" /\ Len(metaFile.data) >= 3

\* C5: a run that follows a run killed with chunks added but not persisted,
\* and that returns, has embedded exactly the chunks whose keys were not in
\* the persisted metadata, each once, and leaves one persisted entry per
\* chunk of the corpus and no duplicate key.
C5_CrashSafety ==
    (pc = "ended" /\ outcome = "ok" /\ prev = "killed_unpersisted") =>
        /\ Range(Flatten(embedCalls)) = NewChunks
        /\ Len(Flatten(embedCalls)) = Cardinality(NewChunks)
        /\ metaFile.state = "ok"
        /\ Len(metaFile.data) = Cardinality(CorpusKeys)
        /\ {ChunkKey(m) : m \in Range(metaFile.data)} = CorpusKeys
        /\ NoDuplicateKeys(metaFile.data)

\* C5 witness: the run after such a kill returned, having skipped persisted
\* chunks and embedded the others.
C5_Witness ==
    /\ pc = "ended" /\ outcome = "ok" /\ prev = "killed_unpersisted"
    /\ total_new_chunks > 0
    /\ Cardinality(CorpusKeys) >= 3

\* C6: the step in which an embedder call raises adds nothing to the
\* in-memory index or metadata and writes neither file, it ends
\* update_embeddings, nothing is written after update_embeddings has ended,
\* and the files are then as the last completed save_index_metadata of the
\* run left them (as the run found them when it completed none).
C6_EmbedderFailureCommitsNothing ==
    /\ [][outcome' = "embed_failed" /\ outcome = "running" =>
            /\ index' = index
            /\ metadata' = metadata
            /\ idxFile' = idxFile
            /\ metaFile' = metaFile
            /\ pc' = "ended"]_vars
    /\ [][pc = "ended" => (idxFile' = idxFile /\ metaFile' = metaFile)]_vars
    /\ []((pc = "ended" /\ outcome = "embed_failed") =>
            <<idxFile, metaFile>> = committed)

\* C6 witness: the embedder raised in a later sub-batch of a staged batch,
\* after an earlier sub-batch of the same batch was embedded.
C6_Witness ==
    /\ pc = "ended" /\ outcome = "embed_failed"
    /\ Len(current_chunks) > BATCH_SIZE
    /\ embedCalls[Len(embedCalls)] # SubBatch(current_chunks, 1)

\* C7: no id is held twice by the vector index, in memory or on disk.
C7_IdsNeverReused ==
    /\ NoDuplicateIds(index.items)
    /\ idxFile.state = "ok" => NoDuplicateIds(idxFile.data)

\* The two complete files disagree on the number of entries or on the
\* maximum id.
Mismatched ==
    /\ idxFile.state = "ok" /\ metaFile.state = "ok"
    /\ \/ Len(idxFile.data) # Len(metaFile.data)
       \/ \E x \in IdsOf(idxFile.data) : \A y \in IdsOf(metaFile.data) : y < x
       \/ \E y \in IdsOf(metaFile.data) : \A x \in IdsOf(idxFile.data) : x < y

\* C8: opening a store whose files disagree on count or maximum id never
\* proceeds to the walk.
C8_OpenRejectsMismatch ==
    [][(pc = "idle" /\ Mismatched) => pc' # "walk"]_vars

\* C9: opening a store of which exactly one file exists never proceeds to
\* the walk.
C9_OpenRejectsSingleArtifact ==
    [][(pc = "idle" /\ Exists(idxFile) # Exists(metaFile)) => pc' # "walk"]_vars

Flushed == Len(embedCalls') > Len(embedCalls) /\ outcome' = "running"

\* C11 as stated: the two staging buffers have the same length, with a
\* ceiling of at least 1 they never hold more than MAX_CHUNKS_IN_MEMORY
\* chunks, no flush embeds more than that, and they are empty after every
\* flush.
C11_StagingEmptyAfterEachFlush ==
    /\ [](/\ Len(current_chunks) = Len(current_entries)
          /\ MAX_CHUNKS_IN_MEMORY >= 1
                => Len(current_chunks) <= MAX_CHUNKS_IN_MEMORY)
    /\ [][(Flushed /\ MAX_CHUNKS_IN_MEMORY >= 1)
            => processed_chunks' - processed_chunks <= MAX_CHUNKS_IN_MEMORY]_vars
    /\ [][Flushed => current_chunks' = <<>> /\ current_entries' = <<>>]_vars

\* C11 amended: the same bound, and the buffers are empty after every flush
\* of the chunk loop (lines 185-191); the flush after the walk (lines
\* 204-206) leaves them as they were.
C11_StagingEmptyAfterLoopFlush ==
    /\ [](/\ Len(current_chunks) = Len(current_entries)
          /\ MAX_CHUNKS_IN_MEMORY >= 1
                => Len(current_chunks) <= MAX_CHUNKS_IN_MEMORY)
    /\ [][(Flushed /\ MAX_CHUNKS_IN_MEMORY >= 1)
            => processed_chunks' - processed_chunks <= MAX_CHUNKS_IN_MEMORY]_vars
    /\ [][(Flushed /\ pc = "chunks")
            => current_chunks' = <<>> /\ current_entries' = <<>>]_vars
    /\ [][(Flushed /\ pc = "walk") => UNCHANGED staging]_vars

\* A chunk is staged below a ceiling of 2 after a flush of this run.
C11_Witness ==
    /\ pc = "chunks"
    /\ MAX_CHUNKS_IN_MEMORY = 2
    /\ Len(embedCalls) > 0
    /\ Len(current_chunks) = 1

\* A step in which update_embeddings returns.
Returns == outcome = "running" /\ outcome' = "ok"

\* Once the walk is over every chunk staged by the run is in the store.
RemainingFlushed ==
    (pc \in {"save_index", "save_meta"} /\ after = "return")
        => /\ Range(current_entries) \subseteq Range(metadata)
           /\ Len(metadata) = Cardinality(existing_keys) + total_new_chunks

\* C12 as stated: after the walk the remaining staged chunks are flushed and
\* update_embeddings returns only from a completed save_index_metadata, also
\* when the run found no new chunk.
C12_PersistsUnconditionally ==
    /\ []RemainingFlushed
    /\ [][Returns => (pc = "save_meta" /\ metaFile' = Written(metadata)
                                       /\ idxFile' = Written(index.items))]_vars

\* C12 amended: a run that found a new chunk returns only from a completed
\* save_index_metadata, whatever the number of chunks added since the last
\* checkpoint; a run that found none returns without writing either file.
C12_PersistsWhenNewChunks ==
    /\ []RemainingFlushed
    /\ [][Returns =>
            IF total_new_chunks > 0
            THEN pc = "save_meta" /\ metaFile' = Written(metadata)
                                  /\ idxFile' = Written(index.items)
            ELSE pc = "walk" /\ todo = {} /\ UNCHANGED disk]_vars

\* A run whose last flush embedded staged chunks has returned after its
\* persist.
C12_Witness ==
    /\ pc = "ended"
    /\ outcome = "ok"
    /\ total_new_chunks > 0
    /\ Len(current_chunks) > 0
    /\ metaFile = Written(metadata)
    /\ idxFile = Written(index.items)

\* ------------------------------------------------------ claims on chunk_text
\* The arguments of the call satisfy 0 <= overlap < chunk_size.
ValidArguments(f) == 0 <= f.overlap /\ f.overlap < f.chunk_size

\* Number of tokens of a chunk, and of tokens two chunks have in common.
TokenLength(c) == c.to - c.from

SharedTokens(c, d) ==
    Max(0, Min(c.to, d.to) - Max(c.from, d.from))

\* Each chunk has at most chunk_size tokens; consecutive chunks other than
\* the last pair share exactly overlap tokens.
SizeAndOverlap(f) ==
    /\ \A i \in 1..Len(f.chunks) : TokenLength(f.chunks[i]) <= f.chunk_size
    /\ \A i \in 1..(Len(f.chunks) - 2) :
           SharedTokens(f.chunks[i], f.chunks[i + 1]) = f.overlap

\* C13: with 0 <= overlap < chunk_size the chunks returned by chunk_text
\* have at most chunk_size tokens each, and consecutive chunks share exactly
\* overlap tokens, the last pair possibly excepted.
C13_ChunkSizeAndOverlap ==
    (call.pc = "returned" /\ ValidArguments(call)) => SizeAndOverlap(call)

\* chunk_text returned three chunks or more for a positive overlap.
C13_Witness ==
    /\ call.pc = "returned"
    /\ ValidArguments(call)
    /\ call.overlap >= 1
    /\ Len(call.chunks) >= 3

\* The windows of the returned chunks start at multiples of
\* chunk_size - overlap and are cut at the end of the text; only the last
\* one reaches the end; none is empty; together they cover the text.
WindowsCoverText(f) ==
    LET n == f.text.ntokens
        k == Len(f.chunks)
    IN  /\ \A i \in 1..k :
               /\ f.chunks[i].from = (i - 1) * (f.chunk_size - f.overlap)
               /\ f.chunks[i].to = Min(f.chunks[i].from + f.chunk_size, n)
               /\ f.chunks[i].from < f.chunks[i].to
               /\ f.chunks[i].to <= n
               /\ i < k => f.chunks[i].to < n
        /\ k > 0 => f.chunks[k].to = n
        /\ n = 0 => k = 0
        /\ \A t \in 0..(n - 1) :
               \E i \in 1..k : f.chunks[i].from <= t /\ t < f.chunks[i].to

\* C14: with 0 <= overlap < chunk_size, chunk_text of either module returns
\* the windows starting at 0, chunk_size - overlap, 2 * (chunk_size -
\* overlap), ..., the last of which ends at the token count: no empty chunk,
\* none past the end, none after the end was reached, every token covered,
\* and no chunk for an empty text.
C14_WindowsEndAtTokenCount ==
    /\ (call.pc = "returned" /\ ValidArguments(call)) => WindowsCoverText(call)
    /\ (qcall.pc = "returned" /\ ValidArguments(qcall)) => WindowsCoverText(qcall)

\* Both chunkers returned several chunks, the last one cut short by the end
\* of the text.
C14_Witness ==
    /\ call.pc = "returned" /\ qcall.pc = "returned"
    /\ ValidArguments(call)
    /\ Len(call.chunks) >= 2 /\ Len(qcall.chunks) >= 2
    /\ TokenLength(call.chunks[Len(call.chunks)]) < call.chunk_size

\* C15: a call of chunk_text with overlap >= chunk_size fails before it
\* produces a chunk; it neither loops nor returns.
C15_RejectsOverlapNotBelowChunkSize ==
    (call.pc # "none" /\ call.overlap >= call.chunk_size)
        => call.chunks = <<>> /\ call.pc # "returned"

\* C16: the two modules fix the same chunk_size and overlap and chunk every
\* document of the corpus alike with them, and on the same text and
\* arguments their chunkers agree after every iteration and in what they
\* return.
C16_ChunkersEquivalent ==
    /\ QUERY_CHUNK_SIZE = CHUNK_SIZE
    /\ QUERY_CHUNK_OVERLAP = CHUNK_OVERLAP
    /\ \A d \in Docs : query_chunk_text(Text(d)) = chunk_text(Text(d))
    /\ (call.pc # "none" /\ Len(call.chunks) = Len(qcall.chunks)
                         /\ call.pc = qcall.pc) => call = qcall
    /\ (call.pc = "returned" /\ qcall.pc = "returned")
           => call.chunks = qcall.chunks

\* Both chunkers returned, with several chunks.
C16_Witness ==
    /\ call.pc = "returned" /\ qcall.pc = "returned"
    /\ Len(qcall.chunks) >= 2
    /\ call.overlap >= 1

\* ------------------------------------------------- claims on the builder (2)
\* The document a metadata entry names by ticker and accession.
DocOf(m) ==
    CHOOSE d \in Docs : Ticker(d) = m.ticker /\ Accession(d) = m.accession

\* The text of the chunk a metadata entry names.
ChunkOf(m) == chunk_text(Text(DocOf(m)))[m.chunk_index + 1]

\* The texts the embedder was called with in this run, in order.
EmbeddedTexts == Flatten(embedCalls)

\* C17: every embedder call of process_chunk_batch carries between 1 and
\* BATCH_SIZE texts; as long as no call has failed, the texts of the calls,
\* in order, are the chunks of the entries the run has added, in order, and
\* the vector of the i-th text is stored under the id of the i-th entry.
C17_SubBatching ==
    /\ \A j \in 1..Len(embedCalls) :
           1 <= Len(embedCalls[j]) /\ Len(embedCalls[j]) <= BATCH_SIZE
    /\ (pc # "idle" /\ outcome \in {"running", "ok"}) =>
           LET k == Len(EmbeddedTexts)
               li == Len(index.items)
               lm == Len(metadata)
           IN  /\ k = lm - Cardinality(existing_keys)
               /\ k <= li
               /\ \A i \in 1..k :
                      /\ EmbeddedTexts[i] = ChunkOf(metadata[lm - k + i])
                      /\ index.items[li - k + i].id = metadata[lm - k + i].id
                      /\ index.items[li - k + i].vec
                            = embed_texts(<<EmbeddedTexts[i]>>)[1]

\* A staged batch of more than BATCH_SIZE chunks was embedded in a full and
\* a shorter sub-batch and added to the store.
C17_Witness ==
    /\ outcome = "running"
    /\ Len(embedCalls) >= 2
    /\ Len(embedCalls[1]) = BATCH_SIZE
    /\ Len(embedCalls[2]) < BATCH_SIZE
    /\ Len(metadata) >= BATCH_SIZE + 1

\* All vectors of an index have one width.
OneWidth(items) ==
    \A i \in 1..Len(items) : items[i].vec.dims = items[1].vec.dims

\* C18: a batch whose vectors do not have the width of the index is never
\* added, neither to the index in memory nor to a written one; the add
\* raises, and the step in which it raises changes neither the index nor
\* the metadata list nor a file.
C18_WidthMismatchRejected ==
    /\ [](OneWidth(index.items) /\ OneWidth(idxFile.data))
    /\ [][(outcome = "running" /\ outcome' = "add_failed")
            => /\ IndexWidth(index) # embed_dims
               /\ pc' = "ended"
               /\ UNCHANGED <<store, disk>>]_vars
    /\ [][(outcome = "running" /\ Len(embedCalls') > Len(embedCalls)
            /\ Len(index.items) > 0 /\ IndexWidth(index) # embed_dims)
            => outcome' \in {"add_failed", "embed_failed"}]_vars

\* A run that loaded an index of one width and embedded chunks with another
\* has ended in add_with_ids.
C18_Witness ==
    /\ pc = "ended"
    /\ outcome = "add_failed"
    /\ Len(index.items) > 0
    /\ Len(metadata) > 0
    /\ IndexWidth(index) # embed_dims

\* ------------------------------------------------------ claims on retrieve
\* A call of query_rag.retrieve has returned, has raised.
QueryReturned == rcall.pc = "returned" /\ rcall.module = "query_rag"

QueryRaised == rcall.pc = "raised" /\ rcall.module = "query_rag"

\* A call of incremental_chunk_embed.retrieve has returned.
BuilderReturned ==
    rcall.pc = "returned" /\ rcall.module = "incremental_chunk_embed"

\* The file of the document a metadata entry names is under data/.
Present(m) ==
    \E d \in corpus : Ticker(d) = m.ticker /\ Accession(d) = m.accession

\* The label index.search gave at a rank of the call (-1: none).
FoundLabel(rank) ==
    IF rcall.found[rank] = 0 THEN -1 ELSE idxFile.data[rcall.found[rank]].id

\* The rank names an entry of the written metadata by its position.
Named(rank) == 0 <= FoundLabel(rank) /\ FoundLabel(rank) < Len(metaFile.data)

\* The ranks of the call whose entry has its document, in order.
KeptRanks ==
    LET Kept(rank) == Named(rank) /\ Present(metaFile.data[FoundLabel(rank) + 1])
    IN  SelectSeq([rank \in 1..Len(rcall.found) |-> rank], Kept)

\* C19: a call of query_rag.retrieve that got a search output returns; it
\* returns one hit for each rank whose entry has its document under data/,
\* in the order of the ranks, and none for a rank whose document is missing
\* (an empty list when all are missing).
C19_MissingDocumentDropsOnlyThatHit ==
    /\ QueryRaised => rcall.found = <<>>
    /\ QueryReturned =>
           /\ Len(rcall.hits) = Len(KeptRanks)
           /\ \A j \in 1..Len(KeptRanks) :
                  ChunkKey(rcall.hits[j])
                    = ChunkKey(metaFile.data[FoundLabel(KeptRanks[j]) + 1])

\* retrieve returned a hit found after a rank whose document is missing.
C19_Witness ==
    /\ QueryReturned
    /\ Len(rcall.hits) >= 1
    /\ \E rank \in 1..Len(rcall.found) :
           /\ Named(rank)
           /\ ~Present(metaFile.data[FoundLabel(rank) + 1])
           /\ KeptRanks[1] > rank

\* C20: the text of every hit retrieve returns is the text the vector found
\* by the search was computed from.
C20_TextIsEmbeddedText ==
    QueryReturned =>
        \A j \in 1..Len(rcall.hits) :
            rcall.hits[j].text = rcall.hits[j].score.vec.of

\* C21: retrieve returns at most k hits; they are the hits of the kept
\* ranks in the order of the search output; each carries the id the search
\* gave at its rank, the distance the search gave for that rank, the
\* identity fields of the metadata entry with that id and the text of the
\* chunk that entry names.
C21_OrderScoreIdentityText ==
    QueryReturned =>
        /\ Len(rcall.hits) <= rcall.k
        /\ Len(rcall.hits) = Len(KeptRanks)
        /\ \A j \in 1..Len(rcall.hits) :
               LET rank  == KeptRanks[j]
                   entry == metaFile.data[FoundLabel(rank) + 1]
                   hit   == rcall.hits[j]
               IN  /\ hit.id = FoundLabel(rank)
                   /\ hit.score = [query |-> rcall.query,
                                   vec |-> idxFile.data[rcall.found[rank]].vec]
                   /\ hit.id = entry.id
                   /\ hit.ticker = entry.ticker
                   /\ hit.accession = entry.accession
                   /\ hit.chunk_index = entry.chunk_index
                   /\ hit.text = ChunkOf(entry)

\* retrieve returned two hits, and the search ranked the vector with the
\* larger id first.
C21_Witness ==
    /\ QueryReturned
    /\ rcall.k = 2
    /\ Len(rcall.hits) = 2
    /\ rcall.hits[1].id > rcall.hits[2].id
    /\ rcall.hits[1].score # rcall.hits[2].score

\* C22: a call of retrieve with an empty query text raises, and it raises
\* before the embedder is called.
C22_EmptyQueryRejected ==
    (rcall.pc # "none" /\ rcall.query = "")
        => (rcall.pc = "raised" /\ ~rcall.embedded)

\* C23: a call of either retrieve made while the index file or the metadata
\* file is not there raises the error of a missing store, without a call of
\* the embedder and without a search; no other call raises that error.
C23_MissingStoreFailsBeforeEmbedding ==
    rcall.pc # "none" =>
        /\ (~Exists(metaFile) \/ ~Exists(idxFile))
              => /\ rcall.pc = "raised"
                 /\ rcall.error = "not_found"
                 /\ ~rcall.embedded
                 /\ rcall.found = <<>>
        /\ rcall.error = "not_found"
              => (~Exists(metaFile) \/ ~Exists(idxFile))

\* query_rag.retrieve was called with the index file written and the
\* metadata file not, and has raised.
C23_Witness ==
    /\ QueryRaised
    /\ rcall.error = "not_found"
    /\ ~rcall.embedded
    /\ Exists(idxFile)
    /\ ~Exists(metaFile)

\* The entry at position i (from 0) of a metadata list has id i.
PositionEqualsId(m) == \A i \in 1..Len(m) : m[i].id = i - 1

\* The ranks of the call at which the search gave a label, in order.
LabelledRanks ==
    LET Labelled(rank) == FoundLabel(rank) >= 0
    IN  SelectSeq([rank \in 1..Len(rcall.found) |-> rank], Labelled)

\* C27: in the metadata list in memory, in every written metadata file and
\* in the one of the last completed persist, the entry at position i has
\* id i; and every hit either retrieve returns for a label vid of the search
\* is the entry whose id is vid.
C27_PositionEqualsId ==
    /\ PositionEqualsId(metadata)
    /\ PositionEqualsId(metaFile.data)
    /\ PositionEqualsId(committed[2].data)
    /\ QueryReturned =>
           \A j \in 1..Len(rcall.hits) :
               rcall.hits[j].id = FoundLabel(KeptRanks[j])
    /\ BuilderReturned =>
           /\ Len(rcall.hits) = Len(LabelledRanks)
           /\ \A j \in 1..Len(rcall.hits) :
                  rcall.hits[j].id = FoundLabel(LabelledRanks[j])

\* incremental_chunk_embed.retrieve returned two hits, the larger id first,
\* from a store in whose history a builder run was killed.
C27_Witness ==
    /\ BuilderReturned
    /\ kills >= 1
    /\ Len(metaFile.data) >= 2
    /\ Len(rcall.hits) = 2
    /\ rcall.hits[1].id > rcall.hits[2].id
    /\ rcall.hits[1] = metaFile.data[rcall.hits[1].id + 1]

\* s is a prefix of t.
IsPrefix(s, t) == Len(s) <= Len(t) /\ SubSeq(t, 1, Len(s)) = s

\* C25: a step that leaves a readable metadata file where there was one
\* keeps the old list as a prefix of the new one (every completed persist
\* extends the list of the one before), and a step that leaves a readable
\* index file where there was one keeps every stored vector, under its
\* label and at its place.
C25_AppendOnly ==
    [][/\ (metaFile.state = "ok" /\ metaFile'.state = "ok")
            => IsPrefix(metaFile.data, metaFile'.data)
       /\ (idxFile.state = "ok" /\ idxFile'.state = "ok")
            => IsPrefix(idxFile.data, idxFile'.data)]_vars

\* C24: a second builder process that opens the store while a run is in
\* progress is rejected, and no call of retrieve is answered while the
\* builder is between the start of an add and the end of a persist.
C24_SingleWriter ==
    /\ wcall.pc # "none" => wcall.pc = "raised"
    /\ rcall.pc # "none" => pc \in {"idle", "ended"}

\* ---------------------------------------------------- claims on downloads
\* C26: a step of the downloader issues no request for a destination whose
\* file exists and leaves that file as it is; and a run that follows a run
\* which ended without an error, with the same filings listed, issues no
\* request and downloads nothing.
C26_OnlyMissingDocuments ==
    /\ [][\A dest \in Dests :
              files[dest].state # "absent"
                  => /\ files'[dest] = files[dest]
                     /\ dest \notin dl'.issued \ dl.issued]_vars
    /\ []((/\ dl.pc = "ended"
           /\ lastRun.outcome = "done"
           /\ lastRun.errors = 0
           /\ lastRun.listed = dl.listed)
              => (dl.downloads = 0 /\ dl.issued = {}))

\* A run has ended without a download after a run that downloaded every
\* listed filing and the Company Facts without an error.
C26_Witness ==
    /\ dl.pc = "ended"
    /\ dl.errors = 0
    /\ dl.downloads = 0
    /\ dl.listed = Filings
    /\ lastRun.outcome = "done"
    /\ lastRun.errors = 0
    /\ lastRun.listed = Filings
    /\ lastRun.downloads = Cardinality(Dests)

\* ------------------------------------------------------ claims on termination
\* update_embeddings is past its final flush (lines 204-206): it is about to
\* persist, or it has returned.
FinalFlushDone ==
    /\ pc \in {"save_index", "save_meta", "ended"}
    /\ after = "return"
    /\ todo = {}
    /\ outcome \in {"running", "ok"}

\* C28: a call of chunk_text with chunk_size >= 1 and 0 <= overlap <
\* chunk_size returns, and a builder run gets past its final flush unless an
\* embedder call raises.
C28_Termination ==
    /\ (call.pc = "loop" /\ call.chunk_size >= 1 /\ 0 <= call.overlap
            /\ call.overlap < call.chunk_size)
         ~> (call.pc = "returned")
    /\ (outcome = "running")
         ~> (FinalFlushDone \/ outcome = "embed_failed")

\* A run that called chunk_text on a text of more than one chunk, passed
\* the ceiling and a checkpoint on its way, is past its final flush.
C28_Witness ==
    /\ FinalFlushDone
    /\ pc = "save_index"
    /\ Cardinality(corpus) = NumDocs
    /\ Len(metadata) >= 3
    /\ Len(embedCalls) >= 2
    /\ Len(committed[2].data) >= 1

====
